---- MODULE Spec2Model ----
(***************************************************************************)
(* Model of plot.py: a straight-line script that loads                     *)
(* 'orderbook_benchmark.csv', creates a 2x2 grid of axes, draws four bar   *)
(* charts with error bars, adjusts the layout, saves                       *)
(* 'orderbook_benchmark.png' and shows the figure.                         *)
(*                                                                         *)
(* Each statement of the script is one action.  A statement that raises    *)
(* ends the run (status "failed"): the script has no try/except.  Two      *)
(* runs of the script over the same input file are modelled side by side   *)
(* so that re-running on identical input can be compared.                  *)
(*                                                                         *)
(* Numbers are kept in tenths, so the text "1.5" is the integer 15.        *)
(***************************************************************************)
EXTENDS Integers, Sequences, FiniteSets, TLC

\* Largest number of data rows in the input file.
MaxRows == 2

\* The runs of the script that are compared with each other.
Runs == {1, 2}

(***************************************************************************)
(* The names the script uses.                                              *)
(***************************************************************************)
Columns ==
    {"Implementation", "Add Mean", "Add StdDev", "Modify Mean", "Modify StdDev",
     "Delete Mean", "Delete StdDev", "BestPrice Mean", "BestPrice StdDev"}

NumericColumns == Columns \ {"Implementation"}

\* axes[i,j] of plt.subplots(2, 2)
Positions == {<<0, 0>>, <<0, 1>>, <<1, 0>>, <<1, 1>>}

\* The statements of the script, in program order.
StepOrder ==
    <<"load", "subplots", "plotAdd", "plotModify", "plotDelete", "plotBestPrice",
      "layout", "save", "show">>

(***************************************************************************)
(* Input files.  A file is a header (the set of its column names) and a    *)
(* sequence of rows, every cell a text.                                    *)
(***************************************************************************)
\* float(text) for the texts that are numbers, in tenths.
ParseFloat ==
    ("1.0" :> 10) @@ ("0.1" :> 1) @@ ("2.0" :> 20) @@ ("0.2" :> 2) @@
    ("3.0" :> 30) @@ ("0.3" :> 3) @@ ("10" :> 100) @@ ("1" :> 10) @@
    ("1.5" :> 15) @@ ("2.5" :> 25) @@ ("3.5" :> 35) @@ ("0.4" :> 4) @@
    ("12" :> 120) @@ ("2" :> 20) @@ ("-0.5" :> -5)

RowA ==
    [c \in Columns |->
        CASE c = "Implementation"   -> "A"
          [] c = "Add Mean"         -> "1.0"
          [] c = "Add StdDev"       -> "0.1"
          [] c = "Modify Mean"      -> "2.0"
          [] c = "Modify StdDev"    -> "0.2"
          [] c = "Delete Mean"      -> "3.0"
          [] c = "Delete StdDev"    -> "0.3"
          [] c = "BestPrice Mean"   -> "10"
          [] c = "BestPrice StdDev" -> "1"]

RowB ==
    [c \in Columns |->
        CASE c = "Implementation"   -> "B"
          [] c = "Add Mean"         -> "1.5"
          [] c = "Add StdDev"       -> "0.2"
          [] c = "Modify Mean"      -> "2.5"
          [] c = "Modify StdDev"    -> "0.3"
          [] c = "Delete Mean"      -> "3.5"
          [] c = "Delete StdDev"    -> "0.4"
          [] c = "BestPrice Mean"   -> "12"
          [] c = "BestPrice StdDev" -> "2"]

\* Well-formed tables of at most MaxRows rows.
CleanBodies == UNION {[1..n -> {RowA, RowB}] : n \in 0..MaxRows}

\* Texts put into one numeric cell: not a number, and a negative number.
BadTexts == {"x", "-0.5"}

\* A table, and the tables that differ from it in one numeric cell.
OneBadCell(t) ==
    {t} \cup {[t EXCEPT ![i][c] = s] :
                i \in 1..Len(t), c \in NumericColumns, s \in BadTexts}

Bodies == UNION {OneBadCell(t) : t \in CleanBodies}

\* The header with column c under another name.
Misnamed(c) == (Columns \ {c}) \cup {"Other"}

\* Row row under the header that has column c misnamed.
MisnamedRow(row, c) == [k \in Misnamed(c) |-> IF k = "Other" THEN row[c] ELSE row[k]]

NoFile == [exists |-> FALSE, header |-> {}, rows |-> <<>>]

Files ==
    {NoFile}
    \cup {[exists |-> TRUE, header |-> Columns, rows |-> t] : t \in Bodies}
    \cup {[exists |-> TRUE, header |-> Misnamed(c),
           rows |-> [i \in 1..Len(t) |-> MisnamedRow(t[i], c)]] :
            t \in Bodies, c \in Columns}

(***************************************************************************)
(* pandas.read_csv: a column whose cells are all numbers becomes a numeric *)
(* column holding the parsed numbers; any other column, and every column   *)
(* of a file without rows, is an object column holding the texts.          *)
(***************************************************************************)
IsNumber(s) == s \in DOMAIN ParseFloat

ColumnDtype(file, c) ==
    IF Len(file.rows) > 0 /\ \A i \in 1..Len(file.rows) : IsNumber(file.rows[i][c])
    THEN "number"
    ELSE "object"

ReadCsv(file) ==
    [columns |-> file.header,
     dtype   |-> [c \in file.header |-> ColumnDtype(file, c)],
     rows    |-> [i \in 1..Len(file.rows) |->
                    [c \in file.header |->
                        IF ColumnDtype(file, c) = "number"
                        THEN ParseFloat[file.rows[i][c]]
                        ELSE file.rows[i][c]]]]

\* df before the assignment of line 4.
Unbound == [columns |-> {}, dtype |-> [c \in {} |-> "object"], rows |-> <<>>]

VARIABLES
    csv,      \* the input file orderbook_benchmark.csv
    pc,       \* pc[r]: the statement run r is at
    status,   \* status[r]: "running", "failed" (a statement raised) or "done"
    df,       \* df[r]: the DataFrame
    panels,   \* panels[r]: the axes of the figure, position -> panel
    tight,    \* tight[r]: tight_layout has been applied
    image,    \* image[r]: <<>> or <<the figure written to orderbook_benchmark.png>>
    shown,    \* shown[r]: the figure has been displayed
    trace     \* trace[r]: the statements run r has executed, in order

vars == <<csv, pc, status, df, panels, tight, image, shown, trace>>

NoAxes == [p \in {} |-> 0]

EmptyPanel == [title |-> "", bars |-> <<>>, series |-> <<>>]

Init ==
    /\ csv \in Files
    /\ pc = [r \in Runs |-> "load"]
    /\ status = [r \in Runs |-> "running"]
    /\ df = [r \in Runs |-> Unbound]
    /\ panels = [r \in Runs |-> NoAxes]
    /\ tight = [r \in Runs |-> FALSE]
    /\ image = [r \in Runs |-> <<>>]
    /\ shown = [r \in Runs |-> FALSE]
    /\ trace = [r \in Runs |-> <<>>]

\* Mutant of At: a statement is run again after it has raised.
At_IgnoresFailure(r, step) == pc[r] = step

At(r, step) == status[r] = "running" /\ pc[r] = step

\* The statement at pc[r] raised: the run stops there.
Raise(r) ==
    /\ status' = [status EXCEPT ![r] = "failed"]
    /\ pc' = pc

Goto(r, next) ==
    /\ pc' = [pc EXCEPT ![r] = next]
    /\ status' = status

Executed(r, step) == trace' = [trace EXCEPT ![r] = Append(@, step)]

\* Line 4: df = pd.read_csv('orderbook_benchmark.csv')
Load(r) ==
    /\ At(r, "load")
    /\ Executed(r, "load")
    /\ IF csv.exists
       THEN /\ df' = [df EXCEPT ![r] = ReadCsv(csv)]
            /\ Goto(r, "subplots")
       ELSE /\ Raise(r)
            /\ df' = df
    /\ UNCHANGED <<csv, panels, tight, image, shown>>

\* Line 5: fig, axes = plt.subplots(2, 2, figsize=(12, 10))
Subplots(r) ==
    /\ At(r, "subplots")
    /\ Executed(r, "subplots")
    /\ panels' = [panels EXCEPT ![r] = [p \in Positions |-> EmptyPanel]]
    /\ Goto(r, "plotAdd")
    /\ UNCHANGED <<csv, df, tight, image, shown>>

(***************************************************************************)
(* d.plot.bar(x=x, y=y, yerr=yerr, ...) raises when one of the three       *)
(* columns is not in d (KeyError), when y is not numeric ("no numeric data *)
(* to plot"), or when yerr is not numeric or holds a negative value.       *)
(***************************************************************************)
CanPlot(d, x, y, yerr) ==
    /\ x \in d.columns
    /\ y \in d.columns
    /\ yerr \in d.columns
    /\ d.dtype[y] = "number"
    /\ d.dtype[yerr] = "number"
    /\ \A i \in 1..Len(d.rows) : d.rows[i][yerr] >= 0

\* Mutant of Bars: the first data row is taken for a header and skipped.
Bars_SkipsFirstRow(d, x, y, yerr) ==
    [i \in 1..(Len(d.rows) - 1) |->
        [label  |-> d.rows[i + 1][x],
         height |-> d.rows[i + 1][y],
         err    |-> d.rows[i + 1][yerr],
         series |-> y]]

\* The bars d.plot.bar draws: one per row of d, in row order.
Bars(d, x, y, yerr) ==
    [i \in 1..Len(d.rows) |->
        [label  |-> d.rows[i][x],
         height |-> d.rows[i][y],
         err    |-> d.rows[i][yerr],
         series |-> y]]

\* The orders in which n bars can be drawn.
Orders(n) == {f \in [1..n -> 1..n] : \A i, j \in 1..n : f[i] = f[j] => i = j}

\* Mutant of PlotCall: the bars are drawn in an arbitrary order.
PlotCall_AnyBarOrder(r, step, x, y, yerr, pos, title, next) ==
    /\ status[r] = "running" /\ pc[r] = step
    /\ trace' = [trace EXCEPT ![r] = Append(@, step)]
    /\ IF CanPlot(df[r], x, y, yerr)
       THEN /\ \E f \in Orders(Len(df[r].rows)) :
                panels' = [panels EXCEPT ![r][pos] =
                            [title  |-> title,
                             bars   |-> @.bars \o
                                 [i \in 1..Len(df[r].rows) |->
                                    [label  |-> df[r].rows[f[i]][x],
                                     height |-> df[r].rows[f[i]][y],
                                     err    |-> df[r].rows[f[i]][yerr],
                                     series |-> y]],
                             series |-> Append(@.series, y)]]
            /\ pc' = [pc EXCEPT ![r] = next]
            /\ status' = status
       ELSE /\ status' = [status EXCEPT ![r] = "failed"]
            /\ pc' = pc
            /\ panels' = panels
    /\ UNCHANGED <<csv, df, tight, image, shown>>

\* Mutant of PlotCall: an error of the plot call is caught and ignored.
PlotCall_SwallowsError(r, step, x, y, yerr, pos, title, next) ==
    /\ status[r] = "running" /\ pc[r] = step
    /\ trace' = [trace EXCEPT ![r] = Append(@, step)]
    /\ IF CanPlot(df[r], x, y, yerr)
       THEN panels' = [panels EXCEPT ![r][pos] =
                            [title  |-> title,
                             bars   |-> @.bars \o
                                 [i \in 1..Len(df[r].rows) |->
                                    [label  |-> df[r].rows[i][x],
                                     height |-> df[r].rows[i][y],
                                     err    |-> df[r].rows[i][yerr],
                                     series |-> y]],
                             series |-> Append(@.series, y)]]
       ELSE panels' = panels
    /\ pc' = [pc EXCEPT ![r] = next]
    /\ status' = status
    /\ UNCHANGED <<csv, df, tight, image, shown>>

\* One df.plot.bar(...) statement of the script, drawing into axes[pos].
PlotCall(r, step, x, y, yerr, pos, title, next) ==
    /\ At(r, step)
    /\ Executed(r, step)
    /\ IF CanPlot(df[r], x, y, yerr)
       THEN /\ panels' = [panels EXCEPT ![r][pos] =
                            [title  |-> title,
                             bars   |-> @.bars \o Bars(df[r], x, y, yerr),
                             series |-> Append(@.series, y)]]
            /\ Goto(r, next)
       ELSE /\ Raise(r)
            /\ panels' = panels
    /\ UNCHANGED <<csv, df, tight, image, shown>>

\* Mutant of PlotAdd: the call removes the error column from df itself.
PlotAdd_DropsErrColumn(r) ==
    /\ status[r] = "running" /\ pc[r] = "plotAdd"
    /\ trace' = [trace EXCEPT ![r] = Append(@, "plotAdd")]
    /\ IF CanPlot(df[r], "Implementation", "Add Mean", "Add StdDev")
       THEN /\ panels' = [panels EXCEPT ![r][<<0, 0>>] =
                            [title  |-> "Add Orders (μs)",
                             bars   |-> @.bars \o
                                 [i \in 1..Len(df[r].rows) |->
                                    [label  |-> df[r].rows[i]["Implementation"],
                                     height |-> df[r].rows[i]["Add Mean"],
                                     err    |-> df[r].rows[i]["Add StdDev"],
                                     series |-> "Add Mean"]],
                             series |-> Append(@.series, "Add Mean")]]
            /\ df' = [df EXCEPT ![r] =
                        [columns |-> @.columns \ {"Add StdDev"},
                         dtype   |-> [c \in @.columns \ {"Add StdDev"} |-> @.dtype[c]],
                         rows    |-> [i \in 1..Len(@.rows) |->
                                        [c \in @.columns \ {"Add StdDev"} |-> @.rows[i][c]]]]]
            /\ pc' = [pc EXCEPT ![r] = "plotModify"]
            /\ status' = status
       ELSE /\ status' = [status EXCEPT ![r] = "failed"]
            /\ pc' = pc
            /\ panels' = panels
            /\ df' = df
    /\ UNCHANGED <<csv, tight, image, shown>>

\* Line 8
PlotAdd(r) ==
    PlotCall(r, "plotAdd", "Implementation", "Add Mean", "Add StdDev",
             <<0, 0>>, "Add Orders (μs)", "plotModify")

\* Mutant of PlotModify: the error bars are those of the Add metric.
PlotModify_AddStdDev(r) ==
    PlotCall(r, "plotModify", "Implementation", "Modify Mean", "Add StdDev",
             <<0, 1>>, "Modify Orders (μs)", "plotDelete")

\* Line 10
PlotModify(r) ==
    PlotCall(r, "plotModify", "Implementation", "Modify Mean", "Modify StdDev",
             <<0, 1>>, "Modify Orders (μs)", "plotDelete")

\* Mutant of PlotDelete: the chart is drawn into the panel of Modify.
PlotDelete_IntoModifyPanel(r) ==
    PlotCall(r, "plotDelete", "Implementation", "Delete Mean", "Delete StdDev",
             <<0, 1>>, "Delete Orders (μs)", "plotBestPrice")

\* Line 12
PlotDelete(r) ==
    PlotCall(r, "plotDelete", "Implementation", "Delete Mean", "Delete StdDev",
             <<1, 0>>, "Delete Orders (μs)", "plotBestPrice")

\* Mutant of PlotBestPrice: the title carries the unit of the other three.
PlotBestPrice_MicrosecondTitle(r) ==
    PlotCall(r, "plotBestPrice", "Implementation", "BestPrice Mean", "BestPrice StdDev",
             <<1, 1>>, "Best Price Lookup (μs)", "layout")

\* Line 14
PlotBestPrice(r) ==
    PlotCall(r, "plotBestPrice", "Implementation", "BestPrice Mean", "BestPrice StdDev",
             <<1, 1>>, "Best Price Lookup (ns)", "layout")

\* Mutant of Layout: the figure is shown where it should be saved.
Layout_ThenShow(r) ==
    /\ status[r] = "running" /\ pc[r] = "layout"
    /\ trace' = [trace EXCEPT ![r] = Append(@, "layout")]
    /\ tight' = [tight EXCEPT ![r] = TRUE]
    /\ pc' = [pc EXCEPT ![r] = "show"]
    /\ status' = status
    /\ UNCHANGED <<csv, df, panels, image, shown>>

\* Line 16: plt.tight_layout()
Layout(r) ==
    /\ At(r, "layout")
    /\ Executed(r, "layout")
    /\ tight' = [tight EXCEPT ![r] = TRUE]
    /\ Goto(r, "save")
    /\ UNCHANGED <<csv, df, panels, image, shown>>

\* Mutant of Save: the statement returns without writing the file.
Save_WritesNothing(r) ==
    /\ status[r] = "running" /\ pc[r] = "save"
    /\ trace' = [trace EXCEPT ![r] = Append(@, "save")]
    /\ pc' = [pc EXCEPT ![r] = "show"]
    /\ status' = status
    /\ UNCHANGED <<csv, df, panels, tight, image, shown>>

\* Line 17: plt.savefig('orderbook_benchmark.png'); raises when the path
\* cannot be opened for writing, before anything is written.
Save(r) ==
    /\ At(r, "save")
    /\ Executed(r, "save")
    /\ \E writable \in BOOLEAN :
        IF writable
        THEN /\ image' = [image EXCEPT ![r] = <<panels[r]>>]
             /\ Goto(r, "show")
        ELSE /\ Raise(r)
             /\ image' = image
    /\ UNCHANGED <<csv, df, panels, tight, shown>>

\* Line 18: plt.show(); returns at once without a display, may raise.
Show(r) ==
    /\ At(r, "show")
    /\ Executed(r, "show")
    /\ \E ok \in BOOLEAN :
        IF ok
        THEN /\ shown' = [shown EXCEPT ![r] = TRUE]
             /\ pc' = [pc EXCEPT ![r] = "done"]
             /\ status' = [status EXCEPT ![r] = "done"]
        ELSE /\ Raise(r)
             /\ shown' = shown
    /\ UNCHANGED <<csv, df, panels, tight, image>>

Next ==
    \E r \in Runs :
        \/ Load(r)
        \/ Subplots(r)
        \/ PlotAdd(r)
        \/ PlotModify(r)
        \/ PlotDelete(r)
        \/ PlotBestPrice(r)
        \/ Layout(r)
        \/ Save(r)
        \/ Show(r)

Spec == Init /\ [][Next]_vars

(***************************************************************************)
(* Vocabulary of the properties.                                           *)
(***************************************************************************)
Idx(step) ==
    IF step = "done" THEN Len(StepOrder) + 1
    ELSE CHOOSE i \in 1..Len(StepOrder) : StepOrder[i] = step

InTrace(r, step) == \E i \in 1..Len(trace[r]) : trace[r][i] = step

\* Run r executed statement step and the statement did not raise.
Succeeded(r, step) == InTrace(r, step) /\ ~(status[r] = "failed" /\ pc[r] = step)

Times(r, step) == Cardinality({i \in 1..Len(trace[r]) : trace[r][i] = step})

\* What the script is meant to draw: statement, columns, panel, title.
Metrics ==
    {[step |-> "plotAdd", mean |-> "Add Mean", sd |-> "Add StdDev",
      pos |-> <<0, 0>>, title |-> "Add Orders (μs)"],
     [step |-> "plotModify", mean |-> "Modify Mean", sd |-> "Modify StdDev",
      pos |-> <<0, 1>>, title |-> "Modify Orders (μs)"],
     [step |-> "plotDelete", mean |-> "Delete Mean", sd |-> "Delete StdDev",
      pos |-> <<1, 0>>, title |-> "Delete Orders (μs)"],
     [step |-> "plotBestPrice", mean |-> "BestPrice Mean", sd |-> "BestPrice StdDev",
      pos |-> <<1, 1>>, title |-> "Best Price Lookup (ns)"]}

\* The first statement that reads column c.
FirstUse(c) ==
    IF c \in {"Implementation", "Add Mean", "Add StdDev"} THEN "plotAdd"
    ELSE IF c \in {"Modify Mean", "Modify StdDev"} THEN "plotModify"
    ELSE IF c \in {"Delete Mean", "Delete StdDev"} THEN "plotDelete"
    ELSE "plotBestPrice"

Written(r) == image[r] # <<>>

\* C1: when all four plot calls of a run over a table of N rows have
\* succeeded, the figure (and the image saved from it) has exactly the 4
\* panels of the 2x2 grid and every panel holds exactly N bars, the i-th
\* labelled with the Implementation of row i.
C1_FourPanelsOfNBars ==
    \A r \in Runs :
        Succeeded(r, "plotBestPrice") =>
            /\ DOMAIN panels[r] = Positions
            /\ Cardinality(DOMAIN panels[r]) = 4
            /\ \A p \in Positions :
                /\ Len(panels[r][p].bars) = Len(csv.rows)
                /\ \A i \in 1..Len(csv.rows) :
                    panels[r][p].bars[i].label = csv.rows[i]["Implementation"]
            /\ Written(r) => image[r][1] = panels[r]

C1_Witness ==
    \E r \in Runs :
        /\ status[r] = "done"
        /\ Len(csv.rows) = 2
        /\ \A p \in Positions : Len(panels[r][p].bars) = 2

\* C2: once the plot call of metric X has succeeded, the i-th bar of X's
\* panel has the height of row i's 'X Mean', the error-bar half-width of
\* row i's 'X StdDev' (of the same metric) and the label of row i, for
\* every row i of the input table, in row order.
C2_BarsAreMeanAndStdDev ==
    \A r \in Runs : \A m \in Metrics :
        Succeeded(r, m.step) =>
            /\ Len(panels[r][m.pos].bars) = Len(csv.rows)
            /\ \A i \in 1..Len(csv.rows) :
                LET bar == panels[r][m.pos].bars[i] IN
                /\ IsNumber(csv.rows[i][m.mean])
                /\ IsNumber(csv.rows[i][m.sd])
                /\ bar.height = ParseFloat[csv.rows[i][m.mean]]
                /\ bar.err = ParseFloat[csv.rows[i][m.sd]]
                /\ bar.label = csv.rows[i]["Implementation"]

\* The example of the specification: rows A and B, in that order.
C2_Witness ==
    \E r \in Runs :
        /\ status[r] = "done"
        /\ csv.rows = <<RowA, RowB>>
        /\ panels[r][<<0, 0>>].bars[1].height = 10
        /\ panels[r][<<0, 0>>].bars[2].height = 15
        /\ panels[r][<<0, 0>>].bars[1].err = 1
        /\ panels[r][<<0, 0>>].bars[2].err = 2

\* C3: when all four plot calls have succeeded, the panel at (0,0) is
\* titled 'Add Orders (μs)' and shows 'Add Mean', (0,1) is titled
\* 'Modify Orders (μs)' and shows 'Modify Mean', (1,0) is titled
\* 'Delete Orders (μs)' and shows 'Delete Mean', (1,1) is titled
\* 'Best Price Lookup (ns)' and shows 'BestPrice Mean'.
C3_TitlesOnTheirPanels ==
    \A r \in Runs :
        Succeeded(r, "plotBestPrice") =>
            \A m \in Metrics :
                /\ panels[r][m.pos].title = m.title
                /\ \A i \in 1..Len(panels[r][m.pos].bars) :
                    panels[r][m.pos].bars[i].series = m.mean

C3_Witness ==
    \E r \in Runs :
        /\ status[r] = "done"
        /\ Len(csv.rows) > 0
        /\ panels[r][<<1, 1>>].title = "Best Price Lookup (ns)"
        /\ panels[r][<<0, 0>>].title = "Add Orders (μs)"

\* C4: when one of the nine required columns is absent from the input
\* table, the run never gets past the first plot call that reads the
\* column, that call ends the run in the failed state, and the save step
\* is never executed: no image is written.
C4_MissingColumnIsFatalBeforeSave ==
    \A r \in Runs : \A c \in Columns :
        (csv.exists /\ c \notin csv.header) =>
            /\ Idx(pc[r]) <= Idx(FirstUse(c))
            /\ InTrace(r, FirstUse(c)) => status[r] = "failed"
            /\ status[r] # "done"
            /\ ~InTrace(r, "save")
            /\ ~Written(r)

\* The column read only by the fourth plot call is missing, the first three
\* panels are drawn and the fourth call has failed.
C4_Witness ==
    \E r \in Runs :
        /\ csv.exists
        /\ "BestPrice StdDev" \notin csv.header
        /\ Len(csv.rows) > 0
        /\ status[r] = "failed"
        /\ pc[r] = "plotBestPrice"
        /\ Len(panels[r][<<1, 0>>].bars) > 0

\* C5: a run whose save step has succeeded has written the output image,
\* and the image holds the figure as drawn; a run that ends successfully
\* has written it.
C5_SuccessWritesTheImage ==
    \A r \in Runs :
        (Succeeded(r, "save") \/ status[r] = "done") =>
            /\ Written(r)
            /\ image[r] = <<panels[r]>>

C5_Witness == \E r \in Runs : status[r] = "done" /\ Written(r) /\ shown[r]

\* C6: a failed run stays as it is (same statement, no further statement
\* executed, nothing more drawn or written), no statement is executed
\* twice, and a run that failed at the load step, at a plot call or at the
\* save step has written no image.
C6_FailureIsFatalAndFinal ==
    [][\A r \in Runs :
        /\ status[r] = "failed" =>
            /\ status'[r] = "failed"
            /\ pc'[r] = pc[r]
            /\ trace'[r] = trace[r]
            /\ panels'[r] = panels[r]
            /\ image'[r] = image[r]
        /\ \A i \in 1..Len(StepOrder) : Times(r, StepOrder[i])' <= 1
        /\ status'[r] = "failed" =>
            /\ trace'[r][Len(trace'[r])] = pc'[r]
            /\ pc'[r] # "show" => ~Written(r)'
      ]_vars

\* One run has failed at the save step while the other has gone on.
C6_Witness ==
    /\ status[1] = "failed"
    /\ pc[1] = "save"
    /\ status[2] = "done"

\* The plot stage of run r is over: it failed, or it is past the last plot call.
Rendered(r) == status[r] = "failed" \/ Idx(pc[r]) > Idx("plotBestPrice")

\* How the load and plot stage of run r ended.
RenderOutcome(r) ==
    IF status[r] = "failed" /\ Idx(pc[r]) <= Idx("plotBestPrice") THEN pc[r] ELSE "rendered"

\* C7 as stated: two finished runs over the same input table have
\* the same rendered values and the same success-or-failure outcome.
C7_SameValuesAndOutcome ==
    \A r1, r2 \in Runs :
        (status[r1] # "running" /\ status[r2] # "running") =>
            /\ panels[r1] = panels[r2]
            /\ status[r1] = status[r2]

\* C7 (amended): two runs over the same input table whose plot stage is
\* over have the same panels, titles, bars, bar order and error bars,
\* the same outcome of the load step and the plot calls, and, where both
\* wrote the image, the same image; whether the save and display steps
\* succeed is not determined by the input table.
C7_SameValuesAndRenderOutcome ==
    \A r1, r2 \in Runs :
        (Rendered(r1) /\ Rendered(r2)) =>
            /\ panels[r1] = panels[r2]
            /\ RenderOutcome(r1) = RenderOutcome(r2)
            /\ (Written(r1) /\ Written(r2)) => image[r1] = image[r2]

C7_Witness ==
    /\ status[1] = "done"
    /\ status[2] = "done"
    /\ Len(csv.rows) = 2
    /\ csv.rows[1] # csv.rows[2]
    /\ panels[1] = panels[2]

\* C8: the load step is the first statement a run executes and it is
\* executed once; in every state after a successful load the DataFrame is
\* the table read from the input file.
C8_ReadOnceNeverMutated ==
    \A r \in Runs :
        /\ Len(trace[r]) > 0 => trace[r][1] = "load" /\ Times(r, "load") = 1
        /\ Succeeded(r, "load") => df[r] = ReadCsv(csv)
        /\ ~InTrace(r, "load") => df[r] = Unbound

C8_Witness ==
    \E r \in Runs :
        /\ status[r] = "done"
        /\ Len(df[r].rows) = 2
        /\ df[r].dtype["Add Mean"] = "number"

\* C9: the statements a run has executed are a prefix of load, subplots,
\* plot Add, plot Modify, plot Delete, plot BestPrice, layout, save, show;
\* when the display step starts, the image has been written.
C9_FixedOrderSaveBeforeShow ==
    \A r \in Runs :
        /\ Len(trace[r]) <= Len(StepOrder)
        /\ \A i \in 1..Len(trace[r]) : trace[r][i] = StepOrder[i]
        /\ (pc[r] = "show" \/ InTrace(r, "show")) => Written(r)

\* The display step failed and the image is there.
C9_Witness ==
    \E r \in Runs :
        /\ status[r] = "failed"
        /\ pc[r] = "show"
        /\ trace[r] = StepOrder
        /\ Written(r)

\* C10: when all four plot calls have succeeded, every panel of the grid
\* has been drawn into by exactly one plot call, and the four panels show
\* four different metrics, namely the four Mean columns.
C10_MetricsToPanelsBijection ==
    \A r \in Runs :
        Succeeded(r, "plotBestPrice") =>
            /\ \A p \in Positions : Len(panels[r][p].series) = 1
            /\ \A p, q \in Positions :
                panels[r][p].series[1] = panels[r][q].series[1] => p = q
            /\ {panels[r][p].series[1] : p \in Positions}
                 = {m.mean : m \in Metrics}

C10_Witness ==
    \E r \in Runs :
        /\ status[r] = "done"
        /\ Len(csv.rows) > 0
        /\ \A p \in Positions : Len(panels[r][p].bars) = Len(csv.rows)
        /\ Cardinality({panels[r][p].series : p \in Positions}) = 4

====
